---------------------------- MODULE Spec2Model ----------------------------
(***************************************************************************)
(* Model of CsvDataProcessor (src/src/CsvDataProcessor.ts): the per-record *)
(* validation pipeline (validateCPF, validateCNPJ, validateInstallments,   *)
(* proccess) and the batching accumulator driven by the 'data' and 'end'   *)
(* handlers of getCsvData.                                                 *)
(*                                                                         *)
(* A JavaScript string is modelled as a sequence of one-character strings, *)
(* so that replace(/\D/g, ''), .length, substring and indexing are         *)
(* operations on sequences.  A JavaScript number is modelled as a record   *)
(* [kind, neg, num, den]: NaN, +/-Infinity, or the rational num/den with   *)
(* sign (so that -0 exists).  The numeric texts the model draws are        *)
(* multiples of 1/4 of small magnitude divided by small whole numbers; on  *)
(* these an IEEE-754 double quotient is strictly equal to a double exactly *)
(* when the rationals are equal, which is what StrictEquals computes.      *)
(***************************************************************************)
EXTENDS Integers, Sequences, FiniteSets, TLC

(***************************************************************************)
(* Bounds of the model.                                                    *)
(***************************************************************************)
MaxRows == 3         \* rows the row source emits before it may end
MaxBatch == 3        \* largest batchSize passed to the constructor
MaxCalls == 3        \* proccess calls, and proccessBatch calls, at interface level
NumBases == 6        \* generated id bodies per id form

(***************************************************************************)
(* Text.                                                                   *)
(***************************************************************************)
DigitChars == <<"0", "1", "2", "3", "4", "5", "6", "7", "8", "9">>

\* /\d/ : the character is a decimal digit
IsDigit(c) == \E i \in 1..10 : DigitChars[i] = c

\* parseInt of a one-character digit string
DigitValue(c) == (CHOOSE i \in 1..10 : DigitChars[i] = c) - 1

\* text of a tuple of digit values
Str(ds) == [i \in 1..Len(ds) |-> DigitChars[ds[i] + 1]]

\* s.replace(/\D/g, '')
StripNonDigits(s) == SelectSeq(s, IsDigit)

\* /^(\d)\1{n-1}$/.test(s) : n copies of one digit
RepeatedDigit(s, n) ==
    /\ Len(s) = n
    /\ IsDigit(s[1])
    /\ \A i \in 2..n : s[i] = s[1]

(***************************************************************************)
(* validateCPF, validateCNPJ.                                              *)
(***************************************************************************)
\* the for loop of calcularDigito: soma += parseInt(numeros[i]) * pesos[i]
RECURSIVE SomaLoop(_, _, _, _)
SomaLoop(numeros, pesos, i, soma) ==
    IF i > Len(numeros) THEN soma
    ELSE SomaLoop(numeros, pesos, i + 1, soma + DigitValue(numeros[i]) * pesos[i])

calcularDigitoAlt(numeros, pesos) ==
    LET resto == SomaLoop(numeros, pesos, 1, 0) % 11
    IN  IF resto < 1 THEN 0 ELSE 11 - resto

calcularDigito(numeros, pesos) ==
    LET resto == SomaLoop(numeros, pesos, 1, 0) % 11
    IN  IF resto < 2 THEN 0 ELSE 11 - resto

calcularDigitoCNPJAlt(numeros, pesos) ==
    LET resto == SomaLoop(numeros, pesos, 1, 0) % 11
    IN  IF resto < 2 THEN 0 ELSE 10 - resto

calcularDigitoCNPJ(numeros, pesos) ==
    LET resto == SomaLoop(numeros, pesos, 1, 0) % 11
    IN  IF resto < 2 THEN 0 ELSE 11 - resto

cpfPesosPrimeiroDigito == <<10, 9, 8, 7, 6, 5, 4, 3, 2>>
cpfPesosSegundoDigito == <<11, 10, 9, 8, 7, 6, 5, 4, 3, 2>>
cnpjPesosPrimeiroDigito == <<5, 4, 3, 2, 9, 8, 7, 6, 5, 4, 3, 2>>
cnpjPesosSegundoDigito == <<6, 5, 4, 3, 2, 9, 8, 7, 6, 5, 4, 3, 2>>

validateCPF(raw) ==
    LET cpf == StripNonDigits(raw)
    IN  IF Len(cpf) # 11 \/ RepeatedDigit(cpf, 11) THEN FALSE
        ELSE IF DigitValue(cpf[10]) # calcularDigito(SubSeq(cpf, 1, 9), cpfPesosPrimeiroDigito)
             THEN FALSE
        ELSE DigitValue(cpf[11]) = calcularDigito(SubSeq(cpf, 1, 10), cpfPesosSegundoDigito)

validateCNPJ(raw) ==
    LET cnpj == StripNonDigits(raw)
    IN  IF Len(cnpj) # 14 \/ RepeatedDigit(cnpj, 14) THEN FALSE
        ELSE IF DigitValue(cnpj[13]) # calcularDigitoCNPJ(SubSeq(cnpj, 1, 12), cnpjPesosPrimeiroDigito)
             THEN FALSE
        ELSE DigitValue(cnpj[14]) = calcularDigitoCNPJ(SubSeq(cnpj, 1, 13), cnpjPesosSegundoDigito)

(***************************************************************************)
(* parseFloat, parseInt, the division and === of validateInstallments.     *)
(***************************************************************************)
NaN == [kind |-> "nan", neg |-> FALSE, num |-> 0, den |-> 1]
Infinity(neg) == [kind |-> "inf", neg |-> neg, num |-> 0, den |-> 1]
Finite(neg, num, den) == [kind |-> "fin", neg |-> neg, num |-> num, den |-> den]

RECURSIVE TrimStart(_)
TrimStart(s) == IF s # <<>> /\ Head(s) = " " THEN TrimStart(Tail(s)) ELSE s

\* the longest prefix of s made of decimal digits
RECURSIVE DigitPrefix(_)
DigitPrefix(s) ==
    IF s # <<>> /\ IsDigit(Head(s)) THEN <<Head(s)>> \o DigitPrefix(Tail(s)) ELSE <<>>

Drop(s, n) == SubSeq(s, n + 1, Len(s))

StartsWith(s, p) == Len(s) >= Len(p) /\ SubSeq(s, 1, Len(p)) = p

\* the value of a string of decimal digits
RECURSIVE DecimalValue(_)
DecimalValue(ds) ==
    IF ds = <<>> THEN 0
    ELSE 10 * DecimalValue(SubSeq(ds, 1, Len(ds) - 1)) + DigitValue(ds[Len(ds)])

RECURSIVE Pow10(_)
Pow10(n) == IF n = 0 THEN 1 ELSE 10 * Pow10(n - 1)

HasSign(s) == s # <<>> /\ Head(s) \in {"-", "+"}

\* parseFloat: leading white space, a sign, then Infinity or the longest
\* decimal literal (digits, optionally a point and digits); anything else NaN.
\* The texts of the model hold no exponent part.
parseFloat(text) ==
    LET t == TrimStart(text)
        neg == t # <<>> /\ Head(t) = "-"
        body == IF HasSign(t) THEN Tail(t) ELSE t
        ip == DigitPrefix(body)
        rest == Drop(body, Len(ip))
        fp == IF rest # <<>> /\ Head(rest) = "." THEN DigitPrefix(Tail(rest)) ELSE <<>>
    IN  IF StartsWith(body, <<"I", "n", "f", "i", "n", "i", "t", "y">>) THEN Infinity(neg)
        ELSE IF ip = <<>> /\ fp = <<>> THEN NaN
        ELSE Finite(neg, DecimalValue(ip \o fp), Pow10(Len(fp)))

\* parseInt: leading white space, a sign, then the longest run of decimal
\* digits; NaN when there is none.  The texts of the model hold no 0x prefix.
parseInt(text) ==
    LET t == TrimStart(text)
        neg == t # <<>> /\ Head(t) = "-"
        body == IF HasSign(t) THEN Tail(t) ELSE t
        ip == DigitPrefix(body)
    IN  IF ip = <<>> THEN NaN ELSE Finite(neg, DecimalValue(ip), 1)

\* a / b on JavaScript numbers
Divide(a, b) ==
    LET neg == (a.neg # b.neg)
    IN  IF a.kind = "nan" \/ b.kind = "nan" THEN NaN
        ELSE IF a.kind = "inf" THEN (IF b.kind = "inf" THEN NaN ELSE Infinity(neg))
        ELSE IF b.kind = "inf" THEN Finite(neg, 0, 1)
        ELSE IF b.num = 0 THEN (IF a.num = 0 THEN NaN ELSE Infinity(neg))
        ELSE Finite(neg, a.num * b.den, a.den * b.num)

\* a === b on JavaScript numbers: NaN equals nothing, +0 equals -0
StrictEquals(a, b) ==
    IF a.kind = "nan" \/ b.kind = "nan" THEN FALSE
    ELSE IF a.kind = "inf" \/ b.kind = "inf" THEN a.kind = b.kind /\ a.neg = b.neg
    ELSE /\ a.num * b.den = b.num * a.den
         /\ (a.num = 0 \/ a.neg = b.neg)

validateInstallments(data) ==
    StrictEquals(Divide(parseFloat(data.vlTotal), parseInt(data.qtPrestacoes)),
                 parseFloat(data.vlPresta))


(***************************************************************************)
(* formatCurrency: Intl.NumberFormat('pt-BR', BRL, two fraction digits).   *)
(***************************************************************************)
RECURSIVE DigitsOf(_)
DigitsOf(n) == IF n < 10 THEN <<DigitChars[n + 1]>>
               ELSE DigitsOf(n \div 10) \o <<DigitChars[(n % 10) + 1]>>

\* the digits of the integer part with a point between groups of three
RECURSIVE Grouped(_)
Grouped(ds) == IF Len(ds) <= 3 THEN ds
               ELSE Grouped(SubSeq(ds, 1, Len(ds) - 3)) \o <<".">> \o Drop(ds, Len(ds) - 3)

formatCurrency(value) ==
    LET v == parseFloat(value)
        cents == (2 * 100 * v.num + v.den) \div (2 * v.den)
        sign == IF v.neg THEN <<"-">> ELSE <<>>
        frac == <<DigitChars[((cents % 100) \div 10) + 1], DigitChars[(cents % 10) + 1]>>
    IN  IF v.kind = "nan" THEN <<"R", "$", " ", "N", "a", "N">>
        ELSE IF v.kind = "inf" THEN sign \o <<"R", "$", " ", "oo">>
        ELSE sign \o <<"R", "$", " ">> \o Grouped(DigitsOf(cents \div 100)) \o <<",">> \o frac

(***************************************************************************)
(* The processor object and its methods.  A method is an operator from the *)
(* object (a record of its fields, with the console output it has written) *)
(* to the object after the call.                                           *)
(***************************************************************************)
VARIABLES batchSize, count, success_results, error_results, console,
          pc, rows, arg, result

vars == <<batchSize, count, success_results, error_results, console,
          pc, rows, arg, result>>

This == [batchSize |-> batchSize, count |-> count,
         success_results |-> success_results, error_results |-> error_results,
         console |-> console]

Become(t) ==
    /\ batchSize' = t.batchSize
    /\ count' = t.count
    /\ success_results' = t.success_results
    /\ error_results' = t.error_results
    /\ console' = t.console

DefaultBatchSize == 1000

\* field initialisers and constructor(filePath, batchSize?); 0 stands for an
\* omitted or falsy batchSize
Constructed(batchSizeArg) ==
    [batchSize |-> IF batchSizeArg # 0 THEN batchSizeArg ELSE DefaultBatchSize,
     count |-> 0, success_results |-> <<>>, error_results |-> <<>>,
     console |-> <<>>]

resetDataAlt(this) ==
    [this EXCEPT !.success_results = <<>>, !.error_results = <<>>]

resetData(this) ==
    [this EXCEPT !.success_results = <<>>, !.error_results = <<>>, !.count = 0]

\* the two console.log calls are one entry of the console
Logged(this) ==
    [this EXCEPT !.console = Append(@, [errors |-> this.error_results,
                                        successes |-> this.success_results])]

proccessBatchAlt(this) == [Logged(this) EXCEPT !.count = 0]

proccessBatch(this) == resetData(Logged(this))

\* the object literal pushed on success_results
Normalized(data) ==
    [nmClient |-> data.nmClient,
     nrCpfCnpj |-> data.nrCpfCnpj,
     qtPrestacoes |-> parseInt(data.qtPrestacoes),
     vlTotal |-> formatCurrency(data.vlTotal),
     vlPresta |-> formatCurrency(data.vlPresta)]

Rejected(this, reason, data) ==
    [this EXCEPT !.error_results = Append(@, [error |-> reason, data |-> data])]

proccess(this, data) ==
    LET t == [this EXCEPT !.count = @ + 1]
    IN  IF Len(StripNonDigits(data.nrCpfCnpj)) \notin {11, 14}
        THEN Rejected(t, "Invalid CPF or CNPJ", data)
        ELSE IF Len(data.nrCpfCnpj) = 11 /\ ~validateCPF(data.nrCpfCnpj)
        THEN Rejected(t, "Invalid CPF", data)
        ELSE IF Len(data.nrCpfCnpj) = 14 /\ ~validateCNPJ(data.nrCpfCnpj)
        THEN Rejected(t, "Invalid CNPJ", data)
        ELSE IF ~validateInstallments(data)
        THEN Rejected(t, "Invalid Installments", data)
        ELSE [t EXCEPT !.success_results = Append(@, Normalized(data))]

\* the 'data' handler of getCsvData
onDataAlt(this, data) ==
    LET t == proccess(this, data)
    IN  IF t.count > t.batchSize THEN proccessBatch(t) ELSE t

onData(this, data) ==
    LET t == proccess(this, data)
    IN  IF t.count >= t.batchSize THEN proccessBatch(t) ELSE t

\* the 'end' handler of getCsvData
onEndAlt(this) == IF this.count > 0 THEN proccessBatch(this) ELSE this

onEnd(this) == proccessBatch(this)

(***************************************************************************)
(* Inputs: taxpayer-id texts, numeric texts, rows.                         *)
(***************************************************************************)
\* id bodies: the k-th varies the last two body digits, so that the check
\* digits computed over them meet every case of the remainder rule
CpfBody(k) == <<1, 1, 1, 4, 4, 4, 7, (4 * (k - 1) + 7) % 10, (3 * (k - 1) + 7) % 10>>

CnpjBody(k) == <<1, 1, 4, 4, 4, 7, 7, 7, 0, 0, (3 * (k - 1)) % 10, (4 * (k - 1) + 1) % 10>>

\* every pair of trailing digits after each generated body
CpfTexts == {Str(CpfBody(k) \o <<d1, d2>>) : k \in 1..NumBases, d1 \in 0..9, d2 \in 0..9}
CnpjTexts == {Str(CnpjBody(k) \o <<d1, d2>>) : k \in 1..NumBases, d1 \in 0..9, d2 \in 0..9}

RepeatedTexts == {[i \in 1..n |-> DigitChars[d + 1]] : n \in {11, 14}, d \in 0..9}

\* 111.444.777-35 and 11.444.777/0001-61 with the last digit d
PunctuatedCpf(d) == <<"1", "1", "1", ".", "4", "4", "4", ".", "7", "7", "7", "-", "3", DigitChars[d + 1]>>
PunctuatedCnpj(d) == <<"1", "1", ".", "4", "4", "4", ".", "7", "7", "7", "/", "0", "0", "0", "1", "-", "6", DigitChars[d + 1]>>

SpecialTexts ==
    {<<>>, Str(<<1, 2, 3>>), Str(<<1, 1, 1, 4, 4, 4, 7, 7, 7, 3, 5, 0>>),
     Str(<<1, 1, 1, 4, 4, 4, 7, 7, 7, 3, 5>>) \o <<" ">>,
     Str(<<1, 1, 1, 4, 4, 4, 7, 7, 7, 3, 6>>) \o <<" ">>,
     <<"1", "1", "1", "4", "4", "4", "7", "7", "7", "-", "-">>,
     PunctuatedCpf(5), PunctuatedCpf(6), PunctuatedCnpj(1), PunctuatedCnpj(2)}

IdTexts == CpfTexts \cup CnpjTexts \cup RepeatedTexts \cup SpecialTexts

TotalTexts ==
    {<<"1", "0", "0", "0", ".", "0", "0">>, <<"1", "0", "0", ".", "5", "0">>, <<"0">>,
     <<"-", "1", "0", "0", "0", ".", "0", "0">>, <<"a", "b", "c">>}

CountTexts == {<<"1", "0">>, <<"0">>, <<"2">>, <<"4">>, <<>>, <<"1", "0", ".", "9">>}

PrestaTexts ==
    {<<"1", "0", "0", ".", "0", "0">>, <<"9", "9", ".", "0", "0">>, <<"5", "0", ".", "2", "5">>,
     <<" ", "2", "5", "0">>, <<"0">>, <<"I", "n", "f", "i", "n", "i", "t", "y">>,
     <<"-", "I", "n", "f", "i", "n", "i", "t", "y">>}

Row(name, id, qt, total, presta) ==
    [nmClient |-> name, nrCpfCnpj |-> id, qtPrestacoes |-> qt, vlTotal |-> total,
     vlPresta |-> presta]

\* 1000.00 in 10 installments of 100.00, and of 99.00
GoodRow(name, id) == Row(name, id, <<"1", "0">>, <<"1", "0", "0", "0", ".", "0", "0">>,
                         <<"1", "0", "0", ".", "0", "0">>)
BadRow(name, id) == Row(name, id, <<"1", "0">>, <<"1", "0", "0", "0", ".", "0", "0">>,
                        <<"9", "9", ".", "0", "0">>)

ValidCpf == Str(<<1, 1, 1, 4, 4, 4, 7, 7, 7, 3, 5>>)
ValidCnpj == Str(<<1, 1, 4, 4, 4, 7, 7, 7, 0, 0, 0, 1, 6, 1>>)

\* rows for one call of proccess
RecordInputs ==
    {GoodRow("a", id) : id \in IdTexts} \cup {BadRow("a", id) : id \in IdTexts}
    \cup {Row("a", id, qt, total, presta) :
             id \in SpecialTexts \cup {ValidCpf, ValidCnpj, Str(<<1, 1, 1, 4, 4, 4, 7, 7, 7, 3, 6>>)},
             qt \in CountTexts, total \in TotalTexts, presta \in PrestaTexts}

\* rows the row source emits
StreamRows ==
    {GoodRow("a", ValidCpf), BadRow("b", ValidCnpj), GoodRow("c", Str(<<1, 2, 3>>)),
     GoodRow("d", Str(<<1, 1, 1, 4, 4, 4, 7, 7, 7, 3, 6>>)), GoodRow("e", PunctuatedCpf(5))}

(***************************************************************************)
(* Interface level: resetData, proccess and proccessBatch called in any    *)
(* order on a processor constructed without a batchSize.                   *)
(***************************************************************************)
Is(t) ==
    /\ batchSize = t.batchSize
    /\ count = t.count
    /\ success_results = t.success_results
    /\ error_results = t.error_results
    /\ console = t.console

Init ==
    /\ Is(Constructed(0))
    /\ pc = "object"
    /\ rows = <<>>
    /\ arg = <<>>
    /\ result = "none"

CallResetData ==
    /\ Become(resetData(This))
    /\ UNCHANGED <<pc, rows, arg, result>>

\* rows records the arguments of the calls made so far
CallProccess(data) ==
    /\ Len(rows) < MaxCalls
    /\ Become(proccess(This, data))
    /\ rows' = Append(rows, data)
    /\ UNCHANGED <<pc, arg, result>>

CallProccessBatch ==
    /\ Len(console) < MaxCalls
    /\ Become(proccessBatch(This))
    /\ UNCHANGED <<pc, rows, arg, result>>

Next ==
    \/ CallResetData
    \/ \E data \in StreamRows : CallProccess(data)
    \/ CallProccessBatch

Spec == Init /\ [][Next]_vars

(***************************************************************************)
(* Driver level: run() resets the processor and getCsvData attaches the    *)
(* handlers; the row source then emits rows and, once, the end.            *)
(***************************************************************************)
InitDriver ==
    /\ \E batchSizeArg \in 0..MaxBatch : Is(Constructed(batchSizeArg))
    /\ pc = "constructed"
    /\ rows = <<>>
    /\ arg = <<>>
    /\ result = "none"

Run ==
    /\ pc = "constructed"
    /\ Become(resetData(This))
    /\ pc' = "streaming"
    /\ UNCHANGED <<rows, arg, result>>

RowData(data) ==
    /\ pc = "streaming"
    /\ Len(rows) < MaxRows
    /\ Become(onData(This, data))
    /\ rows' = Append(rows, data)
    /\ UNCHANGED <<pc, arg, result>>

RowEnd ==
    /\ pc = "streaming"
    /\ Become(onEnd(This))
    /\ pc' = "ended"
    /\ UNCHANGED <<rows, arg, result>>

NextDriver ==
    \/ Run
    \/ \E data \in StreamRows : RowData(data)
    \/ RowEnd

SpecDriver == InitDriver /\ [][NextDriver]_vars

(***************************************************************************)
(* One call of proccess on a fresh processor, over a wide set of rows.     *)
(***************************************************************************)
InitRecord ==
    /\ Is(Constructed(0))
    /\ pc = "row"
    /\ rows = <<>>
    /\ arg \in RecordInputs
    /\ result = "none"

SubmitArg ==
    /\ pc = "row"
    /\ Become(proccess(This, arg))
    /\ pc' = "submitted"
    /\ rows' = <<arg>>
    /\ UNCHANGED <<arg, result>>

NextRecord == SubmitArg

SpecRecord == InitRecord /\ [][NextRecord]_vars

(***************************************************************************)
(* One call of validateCPF or validateCNPJ on a taxpayer-id text.          *)
(***************************************************************************)
InitValidate ==
    /\ Is(Constructed(0))
    /\ pc = "text"
    /\ rows = <<>>
    /\ arg \in IdTexts
    /\ result = "none"

CallValidateCPF ==
    /\ pc = "text"
    /\ result' = validateCPF(arg)
    /\ pc' = "cpf"
    /\ UNCHANGED <<batchSize, count, success_results, error_results, console, rows, arg>>

CallValidateCNPJ ==
    /\ pc = "text"
    /\ result' = validateCNPJ(arg)
    /\ pc' = "cnpj"
    /\ UNCHANGED <<batchSize, count, success_results, error_results, console, rows, arg>>

NextValidate == CallValidateCPF \/ CallValidateCNPJ

SpecValidate == InitValidate /\ [][NextValidate]_vars

(***************************************************************************)
(* The documented rules, stated independently of the code above.           *)
(***************************************************************************)
\* the decimal digits of a text, as numbers, in order
DigitsIn(text) ==
    LET kept == SelectSeq(text, LAMBDA c : c \in {"0", "1", "2", "3", "4", "5", "6", "7", "8", "9"})
    IN  [i \in 1..Len(kept) |-> CHOOSE d \in 0..9 : DigitChars[d + 1] = kept[i]]

\* sum of ds[i] * ws[i] over the weights
Dot(ds, ws) ==
    LET f[i \in 0..Len(ws)] == IF i = 0 THEN 0 ELSE f[i - 1] + ds[i] * ws[i]
    IN  f[Len(ws)]

CheckDigit(sum) == IF sum % 11 < 2 THEN 0 ELSE 11 - (sum % 11)

CpfRule(text) ==
    LET ds == DigitsIn(text)
    IN  /\ Len(ds) = 11
        /\ Cardinality({ds[i] : i \in 1..11}) > 1
        /\ ds[10] = CheckDigit(Dot(ds, <<10, 9, 8, 7, 6, 5, 4, 3, 2>>))
        /\ ds[11] = CheckDigit(Dot(ds, <<11, 10, 9, 8, 7, 6, 5, 4, 3, 2>>))

CnpjRule(text) ==
    LET ds == DigitsIn(text)
    IN  /\ Len(ds) = 14
        /\ Cardinality({ds[i] : i \in 1..14}) > 1
        /\ ds[13] = CheckDigit(Dot(ds, <<5, 4, 3, 2, 9, 8, 7, 6, 5, 4, 3, 2>>))
        /\ ds[14] = CheckDigit(Dot(ds, <<6, 5, 4, 3, 2, 9, 8, 7, 6, 5, 4, 3, 2>>))

\* the taxpayer id reduces to 11 digits passing the CPF rule or to 14 digits
\* passing the CNPJ rule
IdRule(text) == CpfRule(text) \/ CnpjRule(text)

\* text with its last character replaced by the digit d
WithLast(text, d) == [text EXCEPT ![Len(text)] = DigitChars[d + 1]]

\* total / count = per-installment value, on finite numbers with count # 0
InstallmentRule(data) ==
    LET total == parseFloat(data.vlTotal)
        qt == parseInt(data.qtPrestacoes)
        presta == parseFloat(data.vlPresta)
    IN  /\ total.kind = "fin" /\ qt.kind = "fin" /\ presta.kind = "fin"
        /\ qt.num # 0
        /\ total.num * presta.den = presta.num * qt.num * total.den
        /\ (total.num = 0 \/ (total.neg # qt.neg) = presta.neg)

\* the reason of the first failing check, or "none"
FirstFailing(data) ==
    LET n == Len(DigitsIn(data.nrCpfCnpj))
    IN  IF n \notin {11, 14} THEN "Invalid CPF or CNPJ"
        ELSE IF n = 11 /\ ~CpfRule(data.nrCpfCnpj) THEN "Invalid CPF"
        ELSE IF n = 14 /\ ~CnpjRule(data.nrCpfCnpj) THEN "Invalid CNPJ"
        ELSE IF ~InstallmentRule(data) THEN "Invalid Installments"
        ELSE "none"

\* outcomes in a console entry, and in the whole console
EntrySize(e) == Len(e.errors) + Len(e.successes)

RECURSIVE Flatten(_)
Flatten(ss) == IF ss = <<>> THEN <<>> ELSE Head(ss) \o Flatten(Tail(ss))

LoggedSuccesses == Flatten([i \in 1..Len(console) |-> console[i].successes])
LoggedErrors == Flatten([i \in 1..Len(console) |-> console[i].errors])

\* what proccess makes of one row on an empty processor
Alone(data) == proccess(Constructed(0), data)

(***************************************************************************)
(* Claims.                                                                 *)
(***************************************************************************)
\* C1: between calls of resetData, proccess and proccessBatch, count equals
\* success_results.length + error_results.length.
C1_CountMatchesCollections ==
    count = Len(success_results) + Len(error_results)

C1_Witness ==
    /\ count = 2
    /\ Len(success_results) = 1
    /\ Len(error_results) = 1
    /\ Len(console) >= 1

\* C2: fed exactly batchSize rows, the driver has flushed exactly once, after
\* the row that brought count to batchSize and after no earlier row; the
\* flush carried batchSize outcomes and left count 0 and both collections
\* empty.
C2_OneFlushAtBatchSize ==
    pc = "streaming" =>
        /\ Len(rows) < batchSize => console = <<>>
        /\ Len(rows) = batchSize =>
              /\ Len(console) = 1
              /\ EntrySize(console[1]) = batchSize
              /\ count = 0
              /\ success_results = <<>>
              /\ error_results = <<>>

C2_Witness ==
    /\ pc = "streaming"
    /\ batchSize = 2
    /\ Len(rows) = batchSize
    /\ Len(console) = 1

\* C3: the end of the row source flushes exactly once more whatever count is,
\* the flush carrying the buffered outcomes; batchSize - 1 rows and then the
\* end make exactly one flush, of batchSize - 1 outcomes.
C3_EndFlushesOnce ==
    /\ [][(pc = "streaming" /\ pc' = "ended") =>
            /\ console' = Append(console, [errors |-> error_results,
                                           successes |-> success_results])
            /\ EntrySize(console'[Len(console')]) = count]_vars
    /\ [](pc = "ended" /\ Len(rows) = batchSize - 1 =>
            /\ Len(console) = 1
            /\ EntrySize(console[1]) = batchSize - 1)

C3_Witness ==
    /\ pc = "ended"
    /\ batchSize = 3
    /\ Len(rows) = batchSize - 1
    /\ Len(console) = 1
    /\ EntrySize(console[1]) = 2

\* C10: when the row source has ended, every row's outcome is in exactly one
\* flush, accepted and rejected outcomes each in input order, every flush
\* but the last carries exactly batchSize outcomes, and the buffer is empty.
C10_EveryRowFlushedOnce ==
    pc = "ended" =>
        /\ LoggedSuccesses = Flatten([i \in 1..Len(rows) |-> Alone(rows[i]).success_results])
        /\ LoggedErrors = Flatten([i \in 1..Len(rows) |-> Alone(rows[i]).error_results])
        /\ Len(LoggedSuccesses) + Len(LoggedErrors) = Len(rows)
        /\ \A i \in 1..(Len(console) - 1) : EntrySize(console[i]) = batchSize
        /\ count = 0
        /\ success_results = <<>>
        /\ error_results = <<>>

C10_Witness ==
    /\ pc = "ended"
    /\ batchSize = 2
    /\ Len(rows) = 3
    /\ Len(console) = 2
    /\ Len(LoggedSuccesses) = 2
    /\ Len(LoggedErrors) = 1

\* C7: validateCPF is true exactly when the text, stripped of non-digits,
\* has 11 digits that are not all the same and whose last two digits are the
\* check digits of the weights 10..2 and 11..2; it accepts 11144477735,
\* rejects 11 equal digits, and rejects a valid id whose last digit is
\* changed.
C7_ValidateCpfRule ==
    pc = "cpf" =>
        /\ result = CpfRule(arg)
        /\ arg = ValidCpf => result = TRUE
        /\ RepeatedDigit(arg, 11) => result = FALSE
        /\ (result = TRUE /\ Len(arg) = 11) =>
              \A d \in 0..9 : WithLast(arg, d) # arg => ~validateCPF(WithLast(arg, d))

C7_Witness ==
    /\ pc = "cpf"
    /\ result = TRUE
    /\ arg # ValidCpf
    /\ DigitsIn(arg)[10] = 0

\* C8: validateCNPJ is true exactly when the text, stripped of non-digits,
\* has 14 digits that are not all the same and whose last two digits are the
\* check digits of the weights 5..2,9..2 and 6..2,9..2; it accepts
\* 11444777000161 and rejects 14 equal digits.
C8_ValidateCnpjRule ==
    pc = "cnpj" =>
        /\ result = CnpjRule(arg)
        /\ arg = ValidCnpj => result = TRUE
        /\ RepeatedDigit(arg, 14) => result = FALSE

C8_Witness ==
    /\ pc = "cnpj"
    /\ result = TRUE
    /\ Len(arg) = 18

\* C4: a row is appended to success_results only if its taxpayer id, stripped
\* of non-digits, passes the CPF rule on 11 digits or the CNPJ rule on 14,
\* and its installments are consistent.
C4_AcceptedOnlyIfValid ==
    (pc = "submitted" /\ success_results # <<>>) =>
        /\ IdRule(arg.nrCpfCnpj)
        /\ validateInstallments(arg)

\* C5: the rejection reason follows the stripped digit count: 11 digits
\* failing the CPF rule give "Invalid CPF", 14 digits failing the CNPJ rule
\* give "Invalid CNPJ", 11 digits never give "Invalid CNPJ", and "Invalid CPF
\* or CNPJ" is given exactly when the count is neither 11 nor 14.
C5_ReasonByStrippedLength ==
    pc = "submitted" =>
        LET n == Len(DigitsIn(arg.nrCpfCnpj))
            reasons == {error_results[i].error : i \in 1..Len(error_results)}
        IN  /\ (n = 11 /\ ~CpfRule(arg.nrCpfCnpj)) => reasons = {"Invalid CPF"}
            /\ (n = 14 /\ ~CnpjRule(arg.nrCpfCnpj)) => reasons = {"Invalid CNPJ"}
            /\ n = 11 => "Invalid CNPJ" \notin reasons
            /\ ("Invalid CPF or CNPJ" \in reasons) <=> (n \notin {11, 14})

\* C6: every call of proccess adds 1 to count and appends one entry to one
\* collection, leaving the other collection and the earlier entries as they
\* were; a rejected row carries the reason of the first failing check (format
\* gate, checksum, installments) and the unmodified row.
C6_OneOutcomePerCall ==
    [][rows' # rows =>
        LET data == rows'[Len(rows')]
        IN  /\ count' = count + 1
            /\ \/ /\ FirstFailing(data) # "none"
                  /\ error_results' = Append(error_results,
                                             [error |-> FirstFailing(data), data |-> data])
                  /\ success_results' = success_results
               \/ /\ FirstFailing(data) = "none"
                  /\ Len(success_results') = Len(success_results) + 1
                  /\ SubSeq(success_results', 1, Len(success_results)) = success_results
                  /\ error_results' = error_results]_vars

\* The part of C6 that does not name the reason: one more in count, one entry
\* appended to one collection, a rejection carrying the unmodified row.
C6_Accounting ==
    [][rows' # rows =>
        LET data == rows'[Len(rows')]
        IN  /\ count' = count + 1
            /\ \/ /\ \E reason \in {"Invalid CPF or CNPJ", "Invalid CPF", "Invalid CNPJ",
                                    "Invalid Installments"} :
                        error_results' = Append(error_results, [error |-> reason, data |-> data])
                  /\ success_results' = success_results
               \/ /\ Len(success_results') = Len(success_results) + 1
                  /\ SubSeq(success_results', 1, Len(success_results)) = success_results
                  /\ error_results' = error_results]_vars

\* a taxpayer id of digits only that passes its rule
PlainValidId(text) == IdRule(text) /\ Len(DigitsIn(text)) = Len(text)

\* C9: a row whose taxpayer id passes is accepted exactly when total / count
\* equals the per-installment value, and is otherwise rejected with "Invalid
\* Installments"; 1000.00 / 10 / 100.00 is accepted, 1000.00 / 10 / 99.00 is
\* rejected, and a count of 0 is rejected.
C9_InstallmentConsistency ==
    (pc = "submitted" /\ PlainValidId(arg.nrCpfCnpj)) =>
        /\ (success_results # <<>>) <=> InstallmentRule(arg)
        /\ (success_results = <<>>) =>
              /\ Len(error_results) = 1
              /\ error_results[1].error = "Invalid Installments"
        /\ arg = GoodRow("a", arg.nrCpfCnpj) => success_results # <<>>
        /\ arg = BadRow("a", arg.nrCpfCnpj) => success_results = <<>>
        /\ parseInt(arg.qtPrestacoes) = Finite(FALSE, 0, 1) => success_results = <<>>

\* C9 on the rows whose per-installment text is not an Infinity
C9_FiniteInstallments ==
    (parseFloat(arg.vlPresta).kind # "inf") => C9_InstallmentConsistency

=============================================================================
